---------------------------- MODULE Spec2Model ----------------------------
(***************************************************************************)
(* Model of src-tauri/src/commands/lm_studio.rs: the two Tauri commands    *)
(* fetch_lm_studio_models and test_lm_studio_connection.                   *)
(*                                                                         *)
(* A call is a small sequential process: the variable pc is the position   *)
(* of the call in the function body, the other variables are the locals of *)
(* the function, the log records it has emitted and the requests it has    *)
(* dispatched.  The outcomes of the environment (client construction, the  *)
(* transport, the server's status and body) are chosen with \E where the   *)
(* code meets them.                                                        *)
(*                                                                         *)
(* Representation of text:                                                 *)
(*   - a URL is a sequence of one-character strings (so that trimming is   *)
(*     computed character by character);                                   *)
(*   - a response body is a sequence of JSON tokens (see the JSON section);*)
(*   - a message built by format! is the sequence of its fragments, each   *)
(*     fragment a one-field record whose field names what was formatted.   *)
(***************************************************************************)
EXTENDS Integers, Sequences, FiniteSets, TLC

\* Bounds of the model (not program constants).
MaxUrlLen == 3
MaxModels == 3

\* Timeouts given to the client builder, in seconds.
FetchTimeoutSecs == 10
TestTimeoutSecs == 5

-----------------------------------------------------------------------------
(* URL construction                                                        *)

UrlChars == {"x", "/"}

\* All sequences over S of length at most n.
SeqsUpTo(S, n) == UNION {[1..k -> S] : k \in 0..n}

HttpX == <<"h", "t", "t", "p", ":", "/", "/", "x">>

\* The base URLs a caller passes: every short text over UrlChars (among them
\* the empty text, "/", and texts with inner and repeated slashes), and the
\* two texts "http://x" and "http://x/".
BaseUrls == SeqsUpTo(UrlChars, MaxUrlLen) \cup {HttpX, HttpX \o <<"/">>}

\* The literal "/v1/models" of the format string.
EndpointPath == <<"/", "v", "1", "/", "m", "o", "d", "e", "l", "s">>

\* A plausible slip: strip_suffix('/') removes one trailing slash only.
strip_one_slash(s) ==
    IF s # <<>> /\ s[Len(s)] = "/" THEN SubSeq(s, 1, Len(s) - 1) ELSE s

\* str::trim_end_matches('/'): removes the pattern from the end repeatedly.
RECURSIVE trim_end_matches(_)
trim_end_matches(s) ==
    IF s # <<>> /\ s[Len(s)] = "/"
    THEN trim_end_matches(SubSeq(s, 1, Len(s) - 1))
    ELSE s

\* format!("{}/v1/models", base_url.trim_end_matches('/'))
format_url(base_url) == trim_end_matches(base_url) \o EndpointPath

-----------------------------------------------------------------------------
(* HTTP status codes (http::StatusCode as used by reqwest)                 *)

\* The status codes the modelled server answers with: success codes with and
\* without a canonical reason phrase, and non-success codes with and without.
StatusCodes == {200, 204, 299, 304, 404, 500, 599}

\* A plausible slip: only 200 counts as success.
is_success_only_200(code) == code = 200

\* StatusCode::is_success: 300 > code && code >= 200
is_success(code) == 300 > code /\ code >= 200

None == [none |-> TRUE]
Some(v) == [some |-> v]
IsSome(o) == "some" \in DOMAIN o

\* StatusCode::canonical_reason, restricted to StatusCodes.
canonical_reason(code) ==
    CASE code = 200 -> Some("OK")
      [] code = 204 -> Some("No Content")
      [] code = 304 -> Some("Not Modified")
      [] code = 404 -> Some("Not Found")
      [] code = 500 -> Some("Internal Server Error")
      [] OTHER -> None

\* Option::unwrap_or
unwrap_or(o, default) == IF IsSome(o) THEN o.some ELSE default

-----------------------------------------------------------------------------
(* Messages                                                                *)

Lit(s) == [lit |-> s]          \* literal text of a format string, or a &str
Str(s) == [str |-> s]          \* a String given as a sequence of characters
Code(n) == [code |-> n]        \* a status code's number
Num(n) == [num |-> n]          \* a usize
Error(e) == [error |-> e]      \* Display of an error value
Text(t) == [text |-> t]        \* a body text
Id(s) == [id |-> s]            \* a model identifier
Names(l) == [names |-> l]      \* {:?} of a Vec<String>

\* Display of StatusCode: "{} {}" of the number and of
\* canonical_reason().unwrap_or("<unknown status code>")
StatusDisplay(code) ==
    <<Code(code), Lit(" "), Lit(unwrap_or(canonical_reason(code), "<unknown status code>"))>>

Contains(msg, fragment) == \E i \in 1..Len(msg) : msg[i] = fragment

-----------------------------------------------------------------------------
(* Response bodies and JSON                                                *)
(*                                                                         *)
(* A body is a sequence of tokens: P(c) a punctuation character of JSON,   *)
(* S(s) a string literal with content s, W(w) any other run of bytes       *)
(* outside a string literal (null, <html>, ...).  The content "0xFF"       *)
(* stands for a byte sequence that is not valid UTF-8, "U+FFFD" for the    *)
(* replacement character.                                                  *)

P(c) == [p |-> c]
S(s) == [s |-> s]
W(w) == [w |-> w]

IsP(tok) == "p" \in DOMAIN tok
IsS(tok) == "s" \in DOMAIN tok
IsW(tok) == "w" \in DOMAIN tok

\* Bytes to text, malformed sequences replaced by U+FFFD.
from_utf8_lossy(bytes) == IF bytes = "0xFF" THEN "U+FFFD" ELSE bytes

\* A plausible slip: the text is cut to its first tokens.
text_truncated(body) ==
    LET full == [i \in 1..Len(body) |->
                    CASE IsS(body[i]) -> S(from_utf8_lossy(body[i].s))
                      [] IsW(body[i]) -> W(from_utf8_lossy(body[i].w))
                      [] OTHER -> body[i]]
    IN  SubSeq(full, 1, IF Len(full) > 2 THEN 2 ELSE Len(full))

\* Response::text: the whole body decoded as UTF-8, malformed sequences
\* replaced by the replacement character.
text(body) ==
    [i \in 1..Len(body) |->
        CASE IsS(body[i]) -> S(from_utf8_lossy(body[i].s))
          [] IsW(body[i]) -> W(from_utf8_lossy(body[i].w))
          [] OTHER -> body[i]]

\* JSON values.
VStr(s) == [t |-> "str", s |-> s]
VNull == [t |-> "null"]
VArr(items) == [t |-> "arr", items |-> items]
VObj(fields) == [t |-> "obj", fields |-> fields]

POk(v, next) == [ok |-> TRUE, v |-> v, next |-> next]
PErr(e) == [ok |-> FALSE, e |-> e]

\* The JSON grammar over tokens: the value that starts at position i of t.
RECURSIVE ParseValue(_, _)
RECURSIVE ParseItems(_, _, _)
RECURSIVE ParseFields(_, _, _)

\* The elements of an array, the first of them at position i.
ParseItems(t, i, acc) ==
    LET r == ParseValue(t, i)
    IN  IF ~r.ok THEN r
        ELSE IF r.next > Len(t) THEN PErr("EOF while parsing a list")
        ELSE IF t[r.next] = P(",") THEN ParseItems(t, r.next + 1, Append(acc, r.v))
        ELSE IF t[r.next] = P("]") THEN POk(VArr(Append(acc, r.v)), r.next + 1)
        ELSE PErr("expected , or ]")

\* The members of an object, the first key at position i.
ParseFields(t, i, acc) ==
    IF i + 1 > Len(t) THEN PErr("EOF while parsing an object")
    ELSE IF ~IsS(t[i]) THEN PErr("key must be a string")
    ELSE IF t[i + 1] # P(":") THEN PErr("expected :")
    ELSE LET r == ParseValue(t, i + 2)
             fields == Append(acc, [k |-> t[i].s, v |-> r.v])
         IN  IF ~r.ok THEN r
             ELSE IF r.next > Len(t) THEN PErr("EOF while parsing an object")
             ELSE IF t[r.next] = P(",") THEN ParseFields(t, r.next + 1, fields)
             ELSE IF t[r.next] = P("}") THEN POk(VObj(fields), r.next + 1)
             ELSE PErr("expected , or }")

ParseValue(t, i) ==
    IF i > Len(t) THEN PErr("EOF while parsing a value")
    ELSE CASE IsS(t[i]) -> POk(VStr(t[i].s), i + 1)
           [] IsW(t[i]) -> IF t[i].w = "null" THEN POk(VNull, i + 1)
                           ELSE PErr("expected value")
           [] t[i] = P("[") ->
                 IF i + 1 <= Len(t) /\ t[i + 1] = P("]") THEN POk(VArr(<<>>), i + 2)
                 ELSE ParseItems(t, i + 1, <<>>)
           [] t[i] = P("{") ->
                 IF i + 1 <= Len(t) /\ t[i + 1] = P("}") THEN POk(VObj(<<>>), i + 2)
                 ELSE ParseFields(t, i + 1, <<>>)
           [] OTHER -> PErr("expected value")

DOk(v) == [ok |-> TRUE, v |-> v]
DErr(e) == [ok |-> FALSE, e |-> e]

\* A String field of a struct read from the members of a JSON object.
StringField(fields, name) ==
    LET at == {j \in 1..Len(fields) : fields[j].k = name}
    IN  IF at = {} THEN DErr("missing field")
        ELSE IF Cardinality(at) > 1 THEN DErr("duplicate field")
        ELSE LET v == fields[CHOOSE j \in at : TRUE].v
             IN  IF v.t = "str" THEN DOk(v.s) ELSE DErr("invalid type")

\* Deserialize for LmStudioModel (derived): from an object with the three
\* String fields (other members are ignored), or from an array of three strings.
LmStudioModel(v) ==
    IF v.t = "obj" THEN
        LET id == StringField(v.fields, "id")
            object == StringField(v.fields, "object")
            owned_by == StringField(v.fields, "owned_by")
        IN  IF ~id.ok THEN id
            ELSE IF ~object.ok THEN object
            ELSE IF ~owned_by.ok THEN owned_by
            ELSE DOk([id |-> id.v, object |-> object.v, owned_by |-> owned_by.v])
    ELSE IF v.t = "arr" THEN
        IF Len(v.items) # 3 THEN DErr("invalid length")
        ELSE IF \E j \in 1..3 : v.items[j].t # "str" THEN DErr("invalid type")
        ELSE DOk([id |-> v.items[1].s, object |-> v.items[2].s,
                  owned_by |-> v.items[3].s])
    ELSE DErr("invalid type")

\* Deserialize for Vec<LmStudioModel>: the elements in order, the first
\* element that fails fails the whole.
VecLmStudioModel(v) ==
    IF v.t # "arr" THEN DErr("invalid type")
    ELSE LET each == [j \in 1..Len(v.items) |-> LmStudioModel(v.items[j])]
             bad == {j \in 1..Len(each) : ~each[j].ok}
         IN  IF bad # {} THEN each[CHOOSE j \in bad : \A k \in bad : j <= k]
             ELSE DOk([j \in 1..Len(each) |-> each[j].v])

\* Deserialize for LmStudioModelsResponse (derived).
LmStudioModelsResponse(v) ==
    IF v.t = "obj" THEN
        LET object == StringField(v.fields, "object")
            at == {j \in 1..Len(v.fields) : v.fields[j].k = "data"}
            data == VecLmStudioModel(v.fields[CHOOSE j \in at : TRUE].v)
        IN  IF ~object.ok THEN object
            ELSE IF at = {} THEN DErr("missing field")
            ELSE IF Cardinality(at) > 1 THEN DErr("duplicate field")
            ELSE IF ~data.ok THEN data
            ELSE DOk([object |-> object.v, data |-> data.v])
    ELSE IF v.t = "arr" THEN
        IF Len(v.items) # 2 THEN DErr("invalid length")
        ELSE IF v.items[1].t # "str" THEN DErr("invalid type")
        ELSE LET data == VecLmStudioModel(v.items[2])
             IN  IF ~data.ok THEN data
                 ELSE DOk([object |-> v.items[1].s, data |-> data.v])
    ELSE DErr("invalid type")

\* serde_json::from_str::<LmStudioModelsResponse>: one JSON value, nothing
\* after it, of the shape of the struct.
from_str(t) ==
    LET r == ParseValue(t, 1)
    IN  IF ~r.ok THEN DErr(r.e)
        ELSE IF r.next <= Len(t) THEN DErr("trailing characters")
        ELSE LmStudioModelsResponse(r.v)

-----------------------------------------------------------------------------
(* The server's answers                                                    *)

\* The identifiers of the modelled records: the empty one and two others.
IdStrings == {"", "a", "b"}

\* One record of the list, as the API serializes it.
RenderModel(id) ==
    <<P("{"), S("id"), P(":"), S(id), P(","), S("object"), P(":"), S("model"),
      P(","), S("owned_by"), P(":"), S("organization_owner"), P("}")>>

RECURSIVE RenderModels(_)
RenderModels(ids) ==
    IF ids = <<>> THEN <<>>
    ELSE IF Len(ids) = 1 THEN RenderModel(ids[1])
    ELSE RenderModel(ids[1]) \o <<P(",")>> \o RenderModels(Tail(ids))

\* The envelope {"object": "list", "data": [...]}.
RenderList(ids) ==
    <<P("{"), S("object"), P(":"), S("list"), P(","), S("data"), P(":"), P("[")>>
    \o RenderModels(ids) \o <<P("]"), P("}")>>

\* Every list of at most MaxModels records: records in any order, repeated
\* identifiers, empty identifiers, no record.
WellFormedBodies == {RenderList(ids) : ids \in SeqsUpTo(IdStrings, MaxModels)}

\* Other bodies a server may send.
OtherBodies ==
    { <<>>,                                            \* no body
      <<W("<html>")>>,                                 \* not JSON
      <<W("0xFF")>>,                                   \* not UTF-8
      <<W("null")>>,                                   \* JSON, not an object
      SubSeq(RenderList(<<"a">>), 1, Len(RenderList(<<"a">>)) - 1),  \* cut short
      RenderList(<<"a">>) \o <<P("}")>>,               \* trailing characters
      <<P("{"), S("data"), P(":"), P("["), P("]"), P("}")>>,   \* no "object"
      <<P("{"), S("object"), P(":"), S("list"), P("}")>>,      \* no "data"
      <<P("{"), S("object"), P(":"), S("list"), P(","), S("data"), P(":"),
        P("["), P("{"), S("id"), P(":"), W("null"), P(","), S("object"), P(":"),
        S("model"), P(","), S("owned_by"), P(":"), S("o"), P("}"), P("]"), P("}")>>,  \* id: null
      <<P("{"), S("object"), P(":"), S("list"), P(","), S("data"), P(":"),
        P("["), P("{"), S("id"), P(":"), S("a"), P("}"), P("]"), P("}")>>,  \* record without owner
      <<P("{"), S("object"), P(":"), S("list"), P(","), S("object"), P(":"),
        S("list"), P(","), S("data"), P(":"), P("["), P("]"), P("}")>>,  \* duplicate member
      <<P("{"), S("extra"), P(":"), P("["), W("null"), P("]"), P(",")>>
        \o Tail(RenderList(<<"b", "a">>)),             \* an unknown member
      <<P("["), S("list"), P(","), P("["), P("["), S("a"), P(","), S("model"),
        P(","), S("o"), P("]"), P("]"), P("]")>>,       \* structs as arrays
      RenderList(<<"0xFF">>),                          \* an identifier that is not UTF-8
      RenderList(<<"a", "0xFF", "">>) }

Bodies == WellFormedBodies \cup OtherBodies

\* What a server answers: a status code and a body.
Responses == [status : StatusCodes, body : Bodies]

\* Failures of Client::builder().build(), of send() and of text().
BuildErrors == {"builder error"}
TransportErrors == {"dns error", "connection refused", "operation timed out"}
BodyErrors == {"error decoding response body"}

-----------------------------------------------------------------------------
(* The state of a call                                                     *)

VARIABLES
    pc,               \* position in the function body; "idle" before a call
    op,               \* the command called: "fetch" or "test"
    base_url,         \* the argument
    url,              \* let url
    client,           \* let client
    response,         \* let response
    response_text,    \* let response_text
    models_response,  \* let models_response
    model_names,      \* let model_names
    result,           \* the value the function returns
    log,              \* the records the call has given to the log crate
    requests,         \* the requests the call has dispatched
    stages            \* the stages of the function body the call has run

vars == <<pc, op, base_url, url, client, response, response_text, models_response,
          model_names, result, log, requests, stages>>

Ok(v) == [ok |-> v]
Err(m) == [err |-> m]
IsOk(r) == "ok" \in DOMAIN r
IsErr(r) == "err" \in DOMAIN r

Record(level, msg) == [level |-> level, msg |-> msg]
Get(u) == [method |-> "GET", url |-> u]

Init ==
    /\ pc = "idle"
    /\ op = "none"
    /\ base_url = <<>>
    /\ url = <<>>
    /\ client = None
    /\ response = None
    /\ response_text = None
    /\ models_response = None
    /\ model_names = None
    /\ result = None
    /\ log = <<>>
    /\ requests = <<>>
    /\ stages = <<>>

\* A command is invoked: a fresh set of locals, the URL, the first log record.
Start(o, b, greeting) ==
    /\ pc = "idle"
    /\ pc' = "build"
    /\ op' = o
    /\ base_url' = b
    /\ url' = format_url(b)
    /\ log' = <<Record("info", <<Lit(greeting), Str(format_url(b))>>)>>
    /\ client' = None
    /\ response' = None
    /\ response_text' = None
    /\ models_response' = None
    /\ model_names' = None
    /\ result' = None
    /\ requests' = <<>>
    /\ stages' = <<>>

\* A plausible slip: the message is returned and no record is logged.
FailUnlogged(level, logged, returned) ==
    /\ log' = log
    /\ result' = Some(Err(returned))
    /\ pc' = "return"

\* A failure: the record is logged, then the message is the function's Err.
Fail(level, logged, returned) ==
    /\ log' = Append(log, Record(level, logged))
    /\ result' = Some(Err(returned))
    /\ pc' = "return"

-----------------------------------------------------------------------------
(* fetch_lm_studio_models                                                  *)

\* pub async fn fetch_lm_studio_models(base_url: String)
FetchStart(b) == Start("fetch", b, "Fetching models from LM Studio at: ")

\* reqwest::Client::builder().timeout(10 s).build().map_err(..)?
FetchBuild ==
    /\ pc = "build" /\ op = "fetch"
    /\ stages' = Append(stages, "build")
    /\ \/ /\ client' = Some([timeout |-> FetchTimeoutSecs])
          /\ pc' = "send"
          /\ UNCHANGED <<log, result>>
       \/ /\ \E e \in BuildErrors :
                Fail("error", <<Lit("Failed to create HTTP client: "), Error(e)>>,
                              <<Lit("Failed to create HTTP client: "), Error(e)>>)
          /\ UNCHANGED client
    /\ UNCHANGED <<op, base_url, url, response, response_text, models_response,
                   model_names, requests>>

\* A plausible slip: a request that failed in transport is sent once more.
FetchSendRetry ==
    /\ pc = "send" /\ op = "fetch"
    /\ stages' = Append(stages, "send")
    /\ requests' = Append(requests, Get(url))
    /\ \/ /\ \E r \in Responses : response' = Some(r)
          /\ pc' = "status"
          /\ UNCHANGED <<log, result>>
       \/ /\ requests = <<>>
          /\ pc' = "send"
          /\ UNCHANGED <<log, result, response>>
       \/ /\ requests # <<>>
          /\ \E e \in TransportErrors :
                Fail("error",
                     <<Lit("Failed to connect to LM Studio at "), Str(url), Lit(": "), Error(e)>>,
                     <<Lit("Failed to connect to LM Studio at "), Str(url), Lit(": "), Error(e)>>)
          /\ UNCHANGED response
    /\ UNCHANGED <<op, base_url, url, client, response_text, models_response, model_names>>

\* client.get(&url).send().await.map_err(..)?
FetchSend ==
    /\ pc = "send" /\ op = "fetch"
    /\ stages' = Append(stages, "send")
    /\ requests' = Append(requests, Get(url))
    /\ \/ /\ \E r \in Responses : response' = Some(r)
          /\ pc' = "status"
          /\ UNCHANGED <<log, result>>
       \/ /\ \E e \in TransportErrors :
                Fail("error",
                     <<Lit("Failed to connect to LM Studio at "), Str(url), Lit(": "), Error(e)>>,
                     <<Lit("Failed to connect to LM Studio at "), Str(url), Lit(": "), Error(e)>>)
          /\ UNCHANGED response
    /\ UNCHANGED <<op, base_url, url, client, response_text, models_response, model_names>>

\* A plausible slip: the message gives the reason phrase only.
StatusErrorNoCode(code) ==
    <<Lit("LM Studio returned status "),
      Lit(unwrap_or(canonical_reason(code), "Unknown error"))>>

\* format!("LM Studio returned status {}: {}", response.status(),
\*         response.status().canonical_reason().unwrap_or("Unknown error"))
StatusError(code) ==
    <<Lit("LM Studio returned status ")>> \o StatusDisplay(code)
    \o <<Lit(": "), Lit(unwrap_or(canonical_reason(code), "Unknown error"))>>

\* A plausible slip: the status is not checked before the body is read.
FetchStatusUnchecked ==
    /\ pc = "status" /\ op = "fetch"
    /\ stages' = Append(stages, "status")
    /\ pc' = "text"
    /\ UNCHANGED <<op, base_url, url, client, response, response_text, models_response,
                   model_names, requests, log, result>>

\* if !response.status().is_success() { .. return Err(error_msg); }
FetchStatus ==
    /\ pc = "status" /\ op = "fetch"
    /\ stages' = Append(stages, "status")
    /\ IF ~is_success(response.some.status)
       THEN Fail("error", StatusError(response.some.status),
                          StatusError(response.some.status))
       ELSE /\ pc' = "text"
            /\ UNCHANGED <<log, result>>
    /\ UNCHANGED <<op, base_url, url, client, response, response_text, models_response,
                   model_names, requests>>

\* response.text().await.map_err(..)?; log::debug!(..)
FetchText ==
    /\ pc = "text" /\ op = "fetch"
    /\ stages' = Append(stages, "text")
    /\ \/ /\ response_text' = Some(text(response.some.body))
          /\ log' = Append(log, Record("debug", <<Lit("LM Studio response: "),
                                                  Text(text(response.some.body))>>))
          /\ pc' = "parse"
          /\ UNCHANGED result
       \/ /\ \E e \in BodyErrors :
                Fail("error", <<Lit("Failed to read response text: "), Error(e)>>,
                              <<Lit("Failed to read response text: "), Error(e)>>)
          /\ UNCHANGED response_text
    /\ UNCHANGED <<op, base_url, url, client, response, models_response, model_names,
                   requests>>

\* format!("Failed to parse models response: {}. Response was: {}", e, response_text)
ParseError(e, t) ==
    <<Lit("Failed to parse models response: "), Error(e), Lit(". Response was: "), Text(t)>>

\* serde_json::from_str(&response_text).map_err(..)?; log::info!(..)
FetchParse ==
    /\ pc = "parse" /\ op = "fetch"
    /\ stages' = Append(stages, "parse")
    /\ LET r == from_str(response_text.some)
       IN  IF r.ok
           THEN /\ models_response' = Some(r.v)
                /\ log' = Append(log, Record("info", <<Lit("Successfully parsed "),
                                               Num(Len(r.v.data)), Lit(" models")>>))
                /\ pc' = "extract"
                /\ UNCHANGED result
           ELSE /\ Fail("error", ParseError(r.e, response_text.some),
                                 ParseError(r.e, response_text.some))
                /\ UNCHANGED models_response
    /\ UNCHANGED <<op, base_url, url, client, response, response_text, model_names,
                   requests>>

\* ids with every identifier kept at its first occurrence only.
RECURSIVE Dedup(_)
Dedup(ids) ==
    IF ids = <<>> THEN <<>>
    ELSE LET rest == Dedup(SubSeq(ids, 1, Len(ids) - 1))
             last == ids[Len(ids)]
         IN  IF \E j \in 1..Len(rest) : rest[j] = last THEN rest ELSE Append(rest, last)

\* A plausible slip: identifiers are collected without repetition.
collect_ids_dedup(data) ==
    Dedup(SelectSeq([j \in 1..Len(data) |-> data[j].id], LAMBDA id : id # ""))

\* A plausible slip: nothing is filtered.
collect_ids_unfiltered(data) == [j \in 1..Len(data) |-> data[j].id]

\* .into_iter().map(|model| model.id).filter(|id| !id.is_empty()).collect()
collect_ids(data) ==
    SelectSeq([j \in 1..Len(data) |-> data[j].id], LAMBDA id : id # "")

\* let model_names = ..; the closure of map logs every record it sees.
FetchExtract ==
    /\ pc = "extract" /\ op = "fetch"
    /\ stages' = Append(stages, "extract")
    /\ model_names' = Some(collect_ids(models_response.some.data))
    /\ log' = log \o [j \in 1..Len(models_response.some.data) |->
                        Record("debug", <<Lit("Found model: "),
                                          Id(models_response.some.data[j].id)>>)]
    /\ pc' = "check"
    /\ UNCHANGED <<op, base_url, url, client, response, response_text, models_response,
                   result, requests>>

NoModels == <<Lit("No models found in LM Studio. Make sure a model is loaded.")>>

\* if model_names.is_empty() { .. return Err(error_msg); } ..; Ok(model_names)
FetchCheck ==
    /\ pc = "check" /\ op = "fetch"
    /\ stages' = Append(stages, "check")
    /\ IF model_names.some = <<>>
       THEN Fail("warn", NoModels, NoModels)
       ELSE /\ log' = Append(log, Record("info", <<Lit("Returning "),
                                   Num(Len(model_names.some)), Lit(" model names: "),
                                   Names(model_names.some)>>))
            /\ result' = Some(Ok(model_names.some))
            /\ pc' = "return"
    /\ UNCHANGED <<op, base_url, url, client, response, response_text, models_response,
                   model_names, requests>>

-----------------------------------------------------------------------------
(* test_lm_studio_connection                                               *)

\* pub async fn test_lm_studio_connection(base_url: String)
TestStart(b) == Start("test", b, "Testing connection to LM Studio at: ")

\* reqwest::Client::builder().timeout(5 s).build().map_err(..)?
TestBuild ==
    /\ pc = "build" /\ op = "test"
    /\ stages' = Append(stages, "build")
    /\ \/ /\ client' = Some([timeout |-> TestTimeoutSecs])
          /\ pc' = "send"
          /\ UNCHANGED <<log, result>>
       \/ /\ \E e \in BuildErrors :
                Fail("error",
                     <<Lit("Failed to create HTTP client for connection test: "), Error(e)>>,
                     <<Lit("Failed to create HTTP client: "), Error(e)>>)
          /\ UNCHANGED client
    /\ UNCHANGED <<op, base_url, url, response, response_text, models_response,
                   model_names, requests>>

\* A plausible slip: a transport failure is propagated with ? as in the listing.
TestSendPropagates ==
    /\ pc = "send" /\ op = "test"
    /\ stages' = Append(stages, "send")
    /\ requests' = Append(requests, Get(url))
    /\ \/ \E r \in Responses :
            /\ response' = Some(r)
            /\ log' = Append(log, Record("info", <<Lit("Connection test result: "),
                                   [bool |-> is_success(r.status)], Lit(" (status: ")>>
                                   \o StatusDisplay(r.status) \o <<Lit(")")>>))
            /\ result' = Some(Ok(is_success(r.status)))
       \/ \E e \in TransportErrors :
            /\ log' = Append(log, Record("warn", <<Lit("Connection test failed: "), Error(e)>>))
            /\ result' = Some(Err(<<Lit("Connection test failed: "), Error(e)>>))
            /\ UNCHANGED response
    /\ pc' = "return"
    /\ UNCHANGED <<op, base_url, url, client, response_text, models_response, model_names>>

\* match client.get(&url).send().await { Ok(response) => .., Err(e) => .. }
TestSend ==
    /\ pc = "send" /\ op = "test"
    /\ stages' = Append(stages, "send")
    /\ requests' = Append(requests, Get(url))
    /\ \/ \E r \in Responses :
            /\ response' = Some(r)
            /\ log' = Append(log, Record("info", <<Lit("Connection test result: "),
                                   [bool |-> is_success(r.status)], Lit(" (status: ")>>
                                   \o StatusDisplay(r.status) \o <<Lit(")")>>))
            /\ result' = Some(Ok(is_success(r.status)))
       \/ \E e \in TransportErrors :
            /\ log' = Append(log, Record("warn", <<Lit("Connection test failed: "), Error(e)>>))
            /\ result' = Some(Ok(FALSE))
            /\ UNCHANGED response
    /\ pc' = "return"
    /\ UNCHANGED <<op, base_url, url, client, response_text, models_response, model_names>>

-----------------------------------------------------------------------------
(* The call returns: the caller has the result.                            *)

Return ==
    /\ pc = "return"
    /\ pc' = "done"
    /\ UNCHANGED <<op, base_url, url, client, response, response_text, models_response,
                   model_names, result, log, requests, stages>>

\* The future is dropped with its locals (and the client): the next call
\* starts from nothing.
Drop ==
    /\ pc = "done"
    /\ pc' = "idle"
    /\ op' = "none"
    /\ base_url' = <<>>
    /\ url' = <<>>
    /\ client' = None
    /\ response' = None
    /\ response_text' = None
    /\ models_response' = None
    /\ model_names' = None
    /\ result' = None
    /\ log' = <<>>
    /\ requests' = <<>>
    /\ stages' = <<>>

Next ==
    \/ \E b \in BaseUrls : FetchStart(b)
    \/ FetchBuild
    \/ FetchSend
    \/ FetchStatus
    \/ FetchText
    \/ FetchParse
    \/ FetchExtract
    \/ FetchCheck
    \/ \E b \in BaseUrls : TestStart(b)
    \/ TestBuild
    \/ TestSend
    \/ Return
    \/ Drop

Spec == Init /\ [][Next]_vars

-----------------------------------------------------------------------------
(* Properties                                                              *)

Returned == pc \in {"return", "done"}
FetchReturned == op = "fetch" /\ Returned
TestReturned == op = "test" /\ Returned

\* The status codes outside 200..299.
NonSuccess(code) == code < 200 \/ code > 299

\* The identifiers of the decoded envelope, in the order of the body.
ListedIds == [j \in 1..Len(models_response.some.data) |-> models_response.some.data[j].id]

\* out is ids without its empty strings: the non-empty entries of ids, each
\* once per occurrence, in the order of ids.
IsNonEmptyPart(out, ids) ==
    LET kept == {j \in 1..Len(ids) : ids[j] # ""}
    IN  /\ Len(out) = Cardinality(kept)
        /\ \E f \in [1..Len(out) -> kept] :
              /\ \A a, b \in 1..Len(out) : a < b => f[a] < f[b]
              /\ \A k \in 1..Len(out) : out[k] = ids[f[k]]

\* C1: when the body of a success response decodes into an envelope of N
\* records, M of them with an empty identifier and N-M >= 1, the listing
\* returns Ok with exactly the N-M non-empty identifiers in the server's order:
\* nothing reordered, merged, added or lost.
C1_NonEmptyIdsInOrder ==
    (/\ FetchReturned
     /\ IsSome(models_response)
     /\ \E j \in 1..Len(ListedIds) : ListedIds[j] # "")
    => /\ IsOk(result.some)
       /\ IsNonEmptyPart(result.some.ok, ListedIds)

\* A list with an empty identifier between two equal ones has been returned.
C1_Witness ==
    /\ FetchReturned
    /\ IsSome(models_response)
    /\ ListedIds = <<"a", "", "a">>
    /\ IsOk(result.some)

\* C2: when the decoded envelope holds no non-empty identifier (no record, or
\* only records with an empty identifier) the listing returns the Err that
\* says no model is loaded; and every Ok of the listing is a non-empty
\* sequence without an empty string.
C2_EmptyIsAnError ==
    /\ (/\ FetchReturned
        /\ IsSome(models_response)
        /\ \A j \in 1..Len(ListedIds) : ListedIds[j] = "")
       => result.some =
            Err(<<Lit("No models found in LM Studio. Make sure a model is loaded.")>>)
    /\ (op = "fetch" /\ IsSome(result) /\ IsOk(result.some))
       => /\ result.some.ok # <<>>
          /\ \A k \in 1..Len(result.some.ok) : result.some.ok[k] # ""

\* An envelope of two records, both with an empty identifier, was answered.
C2_Witness ==
    /\ FetchReturned
    /\ IsSome(models_response)
    /\ ListedIds = <<"", "">>
    /\ IsErr(result.some)

\* C3 as claimed: for every non-2xx status the Err message contains the
\* status code and the reason phrase of that code.
C3_CodeAndReasonPhrase ==
    (FetchReturned /\ IsSome(response) /\ NonSuccess(response.some.status))
    => /\ IsErr(result.some)
       /\ Contains(result.some.err, Code(response.some.status))
       /\ IsSome(canonical_reason(response.some.status))
       /\ Contains(result.some.err, Lit(canonical_reason(response.some.status).some))

\* C3, amended: for every non-2xx status the Err message contains the status
\* code, and the canonical reason phrase of the code when it has one; for a
\* code without one it contains the texts "<unknown status code>" and
\* "Unknown error" in its place.
C3_CodeAndCanonicalReason ==
    (FetchReturned /\ IsSome(response) /\ NonSuccess(response.some.status))
    => /\ IsErr(result.some)
       /\ Contains(result.some.err, Code(response.some.status))
       /\ IF IsSome(canonical_reason(response.some.status))
          THEN Contains(result.some.err, Lit(canonical_reason(response.some.status).some))
          ELSE /\ Contains(result.some.err, Lit("<unknown status code>"))
               /\ Contains(result.some.err, Lit("Unknown error"))

\* The listing has returned after a 599, a code without a canonical phrase.
C3_Witness ==
    /\ FetchReturned
    /\ IsSome(response)
    /\ response.some.status = 599
    /\ IsErr(result.some)

\* The body was read and did not decode into the envelope.
DecodeFailed ==
    /\ FetchReturned
    /\ IsSome(response_text)
    /\ ~IsSome(models_response)

\* The message holds the error of the decoder.
HoldsDecodeError(msg) ==
    \E i \in 1..Len(msg) : msg[i] = Error(from_str(response_text.some).e)

NotUtf8(tok) == tok \in {S("0xFF"), W("0xFF")}

\* t is body as text: token for token the body, nothing cut and nothing added,
\* a token changed only where it is not valid UTF-8, and then to U+FFFD.
IsBodyAsText(t, body) ==
    /\ Len(t) = Len(body)
    /\ \A j \in 1..Len(body) :
          IF NotUtf8(body[j])
          THEN t[j] \in {S("U+FFFD"), W("U+FFFD")} /\ IsS(t[j]) = IsS(body[j])
          ELSE t[j] = body[j]

C5_TrueIffSuccessStatus ==
    (TestReturned /\ IsSome(client))
    => result.some = Ok(/\ IsSome(response)
                        /\ response.some.status >= 200
                        /\ response.some.status <= 299)

\* The test returned true for a 204 whose body is not JSON.
C5_Witness ==
    /\ TestReturned
    /\ IsSome(response)
    /\ response.some.status = 204
    /\ response.some.body = <<W("<html>")>>
    /\ result.some = Ok(TRUE)

\* C6 as claimed: the connectivity test never returns an Err, whatever the
\* outcome of client construction, transport and status.
C6_NeverErr ==
    (op = "test" /\ IsSome(result)) => IsOk(result.some)

\* C6, amended: the connectivity test returns an Err only when the client
\* could not be constructed (and then without a request); once the client is
\* built it returns Ok of a boolean for every transport outcome and status.
C6_ErrOnlyFromBuild ==
    (op = "test" /\ IsSome(result))
    => /\ IsErr(result.some) <=> ~IsSome(client)
       /\ IsOk(result.some) => result.some.ok \in BOOLEAN
       /\ IsErr(result.some) =>
             /\ requests = <<>>
             /\ result.some.err[1] = Lit("Failed to create HTTP client: ")

\* The test returned false after a failure of the transport.
C6_Witness ==
    /\ TestReturned
    /\ IsSome(client)
    /\ ~IsSome(response)
    /\ requests # <<>>
    /\ result.some = Ok(FALSE)

\* s is b without its trailing slashes: b is s followed by slashes only, and
\* s does not end with a slash.
IsStripped(s, b) ==
    /\ Len(s) <= Len(b)
    /\ s = SubSeq(b, 1, Len(s))
    /\ \A j \in (Len(s) + 1)..Len(b) : b[j] = "/"
    /\ s = <<>> \/ s[Len(s)] # "/"

\* c is b followed by k >= 0 slashes.
IsFollowedBySlashes(b, c) ==
    /\ Len(b) <= Len(c)
    /\ b = SubSeq(c, 1, Len(b))
    /\ \A j \in (Len(b) + 1)..Len(c) : c[j] = "/"

V1Models == <<"/", "v", "1", "/", "m", "o", "d", "e", "l", "s">>

\* C7: both commands request <base without its trailing slashes>/v1/models:
\* the URL is the same for a base and for the base with any number of slashes
\* after it, the same for both commands, and "http://x/" and "http://x" both
\* give "http://x/v1/models".
C7_TrailingSlashes ==
    \A n \in 1..Len(requests) :
        /\ \E m \in 0..Len(base_url) :
              /\ IsStripped(SubSeq(base_url, 1, m), base_url)
              /\ requests[n] = Get(SubSeq(base_url, 1, m) \o V1Models)
        /\ \A b \in BaseUrls :
              (IsFollowedBySlashes(b, base_url) \/ IsFollowedBySlashes(base_url, b))
              => Get(format_url(b)) = requests[n]
        /\ base_url \in {HttpX, HttpX \o <<"/">>}
           => requests[n].url = HttpX \o V1Models

\* The connectivity test has sent its request for a base with two slashes.
C7_Witness ==
    /\ op = "test"
    /\ base_url = <<"x", "/", "/">>
    /\ requests # <<>>

LastStage == stages[Len(stages)]

\* The severity and the opening text of each failure of the listing.
FailureLevel(stage) == IF stage = "check" THEN "warn" ELSE "error"
FailureOpening(stage) ==
    CASE stage = "build" -> "Failed to create HTTP client: "
      [] stage = "send" -> "Failed to connect to LM Studio at "
      [] stage = "status" -> "LM Studio returned status "
      [] stage = "text" -> "Failed to read response text: "
      [] stage = "parse" -> "Failed to parse models response: "
      [] stage = "check" -> "No models found in LM Studio. Make sure a model is loaded."

FailureStages == {"build", "send", "status", "text", "parse", "check"}

\* C9: every Err of the listing is in the log by the time it is returned, at
\* warn for the empty result and at error for every other failure, and the
\* message tells the kind of failure: messages of different kinds differ.
C9_ErrIsLogged ==
    (op = "fetch" /\ IsSome(result) /\ IsErr(result.some))
    => /\ Returned
       /\ LastStage \in FailureStages
       /\ log[Len(log)] = Record(FailureLevel(LastStage), result.some.err)
       /\ result.some.err[1] = Lit(FailureOpening(LastStage))
       /\ \A other \in FailureStages \ {LastStage} :
             result.some.err[1] # Lit(FailureOpening(other))

\* The empty result is about to be returned, its warning logged.
C9_Witness ==
    /\ op = "fetch"
    /\ pc = "return"
    /\ IsSome(model_names)
    /\ IsErr(result.some)
    /\ log[Len(log)].level = "warn"

StageOrder == <<"build", "send", "status", "text", "parse", "extract", "check">>

\* C10: the listing runs its stages in the one order build, send, status,
\* text, parse, extract, check and ends at the first that fails, with the
\* error of that stage: a non-2xx response gives the status error with the
\* body neither read nor decoded, and a body that does not decode gives the
\* parse error, never the empty-result one.
C10_FirstFailureWins ==
    op = "fetch"
    => /\ stages = SubSeq(StageOrder, 1, Len(stages))
       /\ IsSome(result) =>
             /\ Returned
             /\ ~ENABLED (FetchBuild \/ FetchSend \/ FetchStatus \/ FetchText
                          \/ FetchParse \/ FetchExtract \/ FetchCheck)
             /\ IsErr(result.some) => result.some.err[1] = Lit(FailureOpening(LastStage))
             /\ IsOk(result.some) => stages = StageOrder
       /\ (IsSome(response) /\ NonSuccess(response.some.status) /\ Returned)
          => /\ IsErr(result.some)
             /\ result.some.err[1] = Lit("LM Studio returned status ")
             /\ LastStage = "status"
             /\ ~IsSome(response_text)
             /\ ~IsSome(models_response)
       /\ (Returned /\ IsSome(response_text) /\ ~from_str(response_text.some).ok)
          => /\ IsErr(result.some)
             /\ result.some.err[1] = Lit("Failed to parse models response: ")
             /\ LastStage = "parse"

\* A 500 whose body is a valid list of one model ended at the status check.
C10_Witness ==
    /\ FetchReturned
    /\ IsSome(response)
    /\ response.some.status = 500
    /\ response.some.body = RenderList(<<"a">>)
    /\ IsErr(result.some)

=============================================================================
